---------------------------- MODULE Spec2Model ----------------------------
(***************************************************************************)
(* The adaptor layer of the editor (the second unit of Inline.ts, from     *)
(* line 189 on): the Setup/Dispatch Gateway, the Plain Adaptor and the     *)
(* Collaborative (rtc) Adaptor.                                            *)
(*                                                                         *)
(* Every Gateway operation is one synchronous JavaScript call, hence one   *)
(* atomic action.  The only suspension point is the promise chain of       *)
(* setup: rtc.setup() settles in one step, the then-callback of setup runs *)
(* as a later job, and the caller's continuation after that.               *)
(*                                                                         *)
(* An operation works on a "world" record w that holds the mutable state   *)
(* it can touch, and yields [w, outcome, ret].  w.calls is the list of     *)
(* calls the operation made on its collaborators (the engine, the local    *)
(* subsystems); the action stores it, with the outcome, in the variable    *)
(* last.                                                                   *)
(*                                                                         *)
(* The inline render mode (the first unit of Inline.ts, lines 25 to 183)   *)
(* is modelled after the adaptor layer, with variables and a specification *)
(* (InlineSpec) of its own: every event handler is one atomic action, and  *)
(* the callback of requestAnimationFrame is a later action.                *)
(***************************************************************************)
EXTENDS Naturals, Sequences, FiniteSets, TLC

VARIABLES
  plugins,         \* editor.plugins: the names of the registered plugins
  rtcInstance,     \* editor.rtcInstance: the installed adaptor, or NoAdaptor
  setupReturn,     \* what setup(editor) returned: "uncalled", "none", "some"
  pluginPromise,   \* the promise of rtc.setup()
  setupPromise,    \* the promise setup returns: rtc.setup().then(..)
  observed,        \* what the caller's continuation on setupPromise saw
  editorDoc,       \* the local editor body, a content tree
  data,            \* undoManager.data: the undo levels
  index,           \* the Index cell: position in data (0-based, as in the code)
  locks,           \* the Locks cell
  beforeBookmark,  \* the beforeBookmark cell
  rtcState,        \* the collaboration engine's own state
  last             \* the last Gateway call: operation, arguments, the adaptor
                   \* it found installed, outcome, result and calls made

\* the inline render mode
VARIABLES
  uiConfig,        \* the settings render reads once (lines 33 to 41)
  floatContainer,  \* the variable of that name: "unset" or "header"
  visible,         \* the Cell visible
  prevPos,         \* the Cell prevPos
  targetPos,       \* where the target element is now (getTargetPosition)
  handlers,        \* the events a handler is registered for
  frames,          \* animation-frame callbacks requested and not yet run
  initFired,       \* the editor has fired init
  uiLast           \* the last handler run: event, calls made, failure

adaptorVars == <<plugins, rtcInstance, setupReturn, pluginPromise, setupPromise,
                 observed, editorDoc, data, index, locks, beforeBookmark,
                 rtcState, last>>

inlineVars == <<uiConfig, floatContainer, visible, prevPos, targetPos,
                handlers, frames, initFired, uiLast>>

vars == <<plugins, rtcInstance, setupReturn, pluginPromise, setupPromise,
          observed, editorDoc, data, index, locks, beforeBookmark, rtcState,
          last, uiConfig, floatContainer, visible, prevPos, targetPos,
          handlers, frames, initFired, uiLast>>

(***************************************************************************)
(* Bounds of the model.                                                    *)
(***************************************************************************)
MaxLevels == 2      \* undo levels kept in data
MaxCb == 2          \* steps of a callback
MaxRtcHist == 1     \* steps of history the engine model keeps
MaxFrames == 2      \* animation-frame callbacks pending at a time
MaxPos == 1         \* positions of the target element: 0..MaxPos

Min(a, b) == IF a < b THEN a ELSE b

(***************************************************************************)
(* Content.  A raw string is a sequence of tokens, a content tree is the   *)
(* sequence of the nodes under its root.                                   *)
(***************************************************************************)
P(t) == [name |-> "p", text |-> t]
Text(t) == [name |-> "#text", text |-> t]

StringContent(toks) == [kind |-> "string", toks |-> toks]
NodeContent(tree) == [kind |-> "node", tree |-> tree]

\* content instanceof Node
isTreeNode(content) == content.kind = "node"

\* (mutant) every format is taken as supported
isSupportedContentFormat_any(format) == TRUE

\* (mutant) only the tree format is taken as supported
isSupportedContentFormat_treeOnly(format) == format = "tree"

\* format !== 'text'
isSupportedContentFormat(format) == format # "text"

RECURSIVE ParseTokens(_, _)
ParseTokens(s, i) ==
  IF i > Len(s) THEN <<>>
  ELSE IF s[i] = "<p>"
       THEN IF s[i + 1] = "</p>"
            THEN <<P("")>> \o ParseTokens(s, i + 2)
            ELSE <<P(s[i + 1])>> \o ParseTokens(s, i + 3)
       ELSE <<Text(s[i])>> \o ParseTokens(s, i + 1)

\* root text is wrapped in the forced root block when isRootContent is set
AddRootBlocks(tree) ==
  [i \in 1..Len(tree) |->
     IF tree[i].name = "#text" THEN P(tree[i].text) ELSE tree[i]]

\* an empty block is padded with a br on insert, with a nbsp otherwise
PaddEmptyNodes(tree, insert) ==
  [i \in 1..Len(tree) |->
     IF tree[i].name = "p" /\ tree[i].text = ""
     THEN P(IF insert THEN "<br>" ELSE "&nbsp;")
     ELSE tree[i]]

\* editor.parser.parse(html, options)
Parse(s, options) ==
  LET raw == ParseTokens(s, 1)
      rooted == IF options.isRootContent THEN AddRootBlocks(raw) ELSE raw
  IN PaddEmptyNodes(rooted, options.insert)

RECURSIVE SerializeFrom(_, _)
SerializeFrom(tree, i) ==
  IF i > Len(tree) THEN <<>>
  ELSE (IF tree[i].name = "p"
        THEN <<"<p>", tree[i].text, "</p>">>
        ELSE <<tree[i].text>>) \o SerializeFrom(tree, i + 1)

\* Serializer(settings).serialize(fragment)
Serialize(tree) == SerializeFrom(tree, 1)

\* FilterNode.filter with the editor serializer's filters: the padding br of
\* a block is removed
FilterTree(tree) ==
  [i \in 1..Len(tree) |->
     IF tree[i].text = "<br>" THEN [tree[i] EXCEPT !.text = ""] ELSE tree[i]]

\* the text of a document: the text of its nodes, padding left out
TextOfTree(tree) ==
  LET keep(n) == n.text \notin {"", "<br>", "&nbsp;"}
      kept == SelectSeq(tree, keep)
  IN [i \in 1..Len(kept) |-> kept[i].text]


(***************************************************************************)
(* Worlds, calls and results.                                              *)
(***************************************************************************)
NoArg == [none |-> TRUE]
Call(target, fn, arg) == [target |-> target, fn |-> fn, arg |-> arg]
Log(w, target, fn, arg) ==
  [w EXCEPT !.calls = Append(@, Call(target, fn, arg))]

RetUndefined == [kind |-> "undefined"]
RetNull == [kind |-> "null"]
RetBool(b) == [kind |-> "boolean", value |-> b]
RetLevel(level) == [kind |-> "level", level |-> level]
RetContent(content) == [kind |-> "content", content |-> content]

Result(w, outcome, ret) == [w |-> w, outcome |-> outcome, ret |-> ret]
Ok(w, ret) == Result(w, "ok", ret)

\* a member access on the undefined rtcInstance
TypeError == "TypeError"
\* the message of the function Fun.die builds
Unimplemented == "Error: Unimplemented feature for rtc"
\* a failure raised by a callback of the caller
CallbackError == "Error: callback"

EngineCalls(calls) == SelectSeq(calls, LAMBDA c : c.target = "engine")
LocalCalls(calls) == SelectSeq(calls, LAMBDA c : c.target = "local")
CallsOf(calls, target, fn) ==
  SelectSeq(calls, LAMBDA c : c.target = target /\ c.fn = fn)

(***************************************************************************)
(* Undo levels.                                                            *)
(***************************************************************************)
\* UndoLevelType.Complete, no fragments, '' as content, null bookmarks
createDummyUndoLevel ==
  [type |-> "Complete", fragments |-> <<>>, content |-> <<>>,
   bookmark |-> "null", beforeBookmark |-> "null"]

\* the level of the current document
LevelOfEditor(w) ==
  [type |-> "Complete", fragments |-> <<>>, content |-> Serialize(w.doc),
   bookmark |-> "bookmark", beforeBookmark |-> "null"]

\* the document of a level put back into the editor body
ApplyLevel(w, level) ==
  [w EXCEPT !.doc = Parse(level.content,
                          [isRootContent |-> FALSE, insert |-> FALSE])]

(***************************************************************************)
(* The Undo-Level Store (undo/Operations), plain mode's history.           *)
(***************************************************************************)
Operations_beforeChange(w) ==
  Ok(IF w.locks = 0 THEN [w EXCEPT !.bb = "bookmark"] ELSE w, RetUndefined)

Operations_addUndoLevel(w) ==
  LET level == LevelOfEditor(w)
      hasLast == w.index < Len(w.data)
  IN IF w.locks # 0 THEN Ok(w, RetNull)
     ELSE IF hasLast /\ w.data[w.index + 1].content = level.content
          THEN Ok(w, RetNull)
     ELSE LET kept == SubSeq(w.data, 1, Min(w.index + 1, Len(w.data)))
              grown == Append(kept, level)
              w1 == Log(w, "levels", "push",
                        [dropped |-> Len(w.data) - Len(kept)])
          IN Ok([w1 EXCEPT !.data = grown, !.index = Len(grown) - 1],
                RetLevel(level))

Operations_undo(w) ==
  IF w.index > 0
  THEN LET level == w.data[w.index]
       IN Ok(ApplyLevel([w EXCEPT !.index = w.index - 1], level),
             RetLevel(level))
  ELSE Ok(w, RetUndefined)

Operations_redo(w) ==
  IF w.index + 1 < Len(w.data)
  THEN LET level == w.data[w.index + 2]
       IN Ok(ApplyLevel([w EXCEPT !.index = w.index + 1], level),
             RetLevel(level))
  ELSE Ok(w, RetUndefined)

Operations_clear(w) ==
  Ok([w EXCEPT !.data = <<>>, !.index = 0], RetUndefined)

Operations_reset(w) ==
  Ok(Operations_addUndoLevel(Operations_clear(w).w).w, RetUndefined)

Operations_hasUndo(w) == Ok(w, RetBool(w.index > 0))

Operations_hasRedo(w) == Ok(w, RetBool(w.index + 1 < Len(w.data)))

(***************************************************************************)
(* Callbacks.  A callback is a sequence of steps: a direct change of the   *)
(* document (mutB), undoManager.add() (add), a nested undoManager.transact *)
(* (from begin to end) and a failure (throw).                              *)
(***************************************************************************)
DocB == <<P("b")>>
DocC == <<P("c")>>

Steps == {"mutB", "add", "begin", "end", "throw"}

RECURSIVE WellFormedFrom(_, _, _)
WellFormedFrom(cb, i, depth) ==
  IF i > Len(cb) THEN depth = 0
  ELSE CASE cb[i] = "begin" -> WellFormedFrom(cb, i + 1, depth + 1)
         [] cb[i] = "end" -> depth > 0 /\ WellFormedFrom(cb, i + 1, depth - 1)
         [] cb[i] = "throw" -> i = Len(cb)
         [] OTHER -> WellFormedFrom(cb, i + 1, depth)

Callbacks ==
  {cb \in UNION {[1..n -> Steps] : n \in 0..MaxCb} : WellFormedFrom(cb, 1, 0)}

\* the steps of cb from i on, depth nested transactions being open; a
\* failure leaves through the finally of each of them
RECURSIVE RunFrom(_, _, _, _)
RunFrom(w, cb, i, depth) ==
  IF i > Len(cb) THEN [w |-> w, failed |-> FALSE]
  ELSE CASE cb[i] = "mutB" -> RunFrom([w EXCEPT !.doc = DocB], cb, i + 1, depth)
         [] cb[i] = "add" ->
              RunFrom(Operations_addUndoLevel(w).w, cb, i + 1, depth)
         [] cb[i] = "begin" ->
              LET w1 == Operations_beforeChange(w).w
              IN RunFrom([w1 EXCEPT !.locks = @ + 1], cb, i + 1, depth + 1)
         [] cb[i] = "end" ->
              LET w1 == [w EXCEPT !.locks = @ - 1]
              IN RunFrom(Operations_addUndoLevel(w1).w, cb, i + 1, depth - 1)
         [] OTHER ->
              [w |-> [w EXCEPT !.locks = @ - depth], failed |-> TRUE]

RunCallback(w, cb) == RunFrom(w, cb, 1, 0)

\* try { locks + 1; callback() } finally { locks - 1 }
Operations_ignore(w, cb) ==
  LET r == RunCallback([w EXCEPT !.locks = @ + 1], cb)
      w1 == [r.w EXCEPT !.locks = @ - 1]
  IN IF r.failed THEN Result(w1, CallbackError, RetUndefined)
     ELSE Ok(w1, RetUndefined)

\* beforeChange, the callback under the lock, then one add
Operations_transact(w, cb) ==
  LET r == Operations_ignore(Operations_beforeChange(w).w, cb)
  IN IF r.outcome # "ok" THEN r
     ELSE Operations_addUndoLevel(r.w)

\* two transactions back to back, each with a level of its own
Operations_extra(w, cb1, cb2) ==
  LET r1 == Operations_transact(w, cb1)
  IN IF r1.outcome # "ok" THEN Result(r1.w, r1.outcome, RetUndefined)
     ELSE LET r2 == Operations_transact(r1.w, cb2)
          IN Result(r2.w, r2.outcome, RetUndefined)

(***************************************************************************)
(* The local subsystems the Plain Adaptor binds: content, selection and    *)
(* formats.  The selection is the first node of the document, and         *)
(* inserted content replaces it.                                           *)
(***************************************************************************)
RootInsert == [isRootContent |-> TRUE, insert |-> TRUE]
InsertOnly == [isRootContent |-> FALSE, insert |-> TRUE]

SelectionOf(tree) == SubSeq(tree, 1, Min(1, Len(tree)))
ReplaceSelection(tree, fragment) == fragment \o SubSeq(tree, 2, Len(tree))

getContentInternal(w, args, format) ==
  LET w1 == Log(w, "local", "getContentInternal",
                [args |-> args, format |-> format])
  IN Ok(w1, RetContent(
       CASE format = "text" -> StringContent(TextOfTree(w.doc))
         [] format = "tree" -> NodeContent(FilterTree(w.doc))
         [] format = "raw" -> StringContent(Serialize(w.doc))
         [] OTHER -> StringContent(Serialize(FilterTree(w.doc)))))

setContentInternal(w, content, args) ==
  LET w1 == Log(w, "local", "setContentInternal",
                [content |-> content, args |-> args])
      tree == IF isTreeNode(content) THEN content.tree
              ELSE Parse(content.toks, RootInsert)
  IN Ok([w1 EXCEPT !.doc = tree], RetContent(content))

insertHtmlAtCaret(w, value, details) ==
  LET w1 == Log(w, "local", "insertHtmlAtCaret",
                [value |-> value, details |-> details])
      tree == IF isTreeNode(value) THEN value.tree
              ELSE Parse(value.toks, InsertOnly)
  IN Ok([w1 EXCEPT !.doc = ReplaceSelection(@, tree)], RetUndefined)

getSelectedContentInternal(w, format, args) ==
  LET w1 == Log(w, "local", "getSelectedContentInternal",
                [format |-> format, args |-> args])
      sel == SelectionOf(w.doc)
  IN Ok(w1, RetContent(
       IF format = "text" THEN StringContent(TextOfTree(sel))
       ELSE StringContent(Serialize(FilterTree(sel)))))

LocalFormat(w, fn, name, fvars, node) ==
  Ok(Log(w, "local", fn, [name |-> name, fvars |-> fvars, node |-> node]),
     RetUndefined)

(***************************************************************************)
(* The collaboration engine (RtcRuntimeApi), an external collaborator: it  *)
(* keeps a document and a history of its own.                              *)
(***************************************************************************)
EngineStep(w, doc) ==
  [w EXCEPT !.rtc = [doc |-> doc,
                     past |-> Min(w.rtc.past + 1, MaxRtcHist),
                     future |-> 0]]

Engine_undo(w) ==
  LET w1 == Log(w, "engine", "undo", NoArg)
  IN IF w.rtc.past > 0
     THEN [w1 EXCEPT !.rtc.past = @ - 1, !.rtc.future = @ + 1]
     ELSE w1

Engine_redo(w) ==
  LET w1 == Log(w, "engine", "redo", NoArg)
  IN IF w.rtc.future > 0
     THEN [w1 EXCEPT !.rtc.past = @ + 1, !.rtc.future = @ - 1]
     ELSE w1

Engine_hasUndo(w) == Ok(Log(w, "engine", "hasUndo", NoArg),
                        RetBool(w.rtc.past > 0))

Engine_hasRedo(w) == Ok(Log(w, "engine", "hasRedo", NoArg),
                        RetBool(w.rtc.future > 0))

\* the engine runs fn once inside its own transaction
Engine_transact(w, fn) ==
  LET w1 == Log(w, "engine", "transact", [fn |-> fn])
      w2 == Log(w1, "callback", "run", [fn |-> fn])
  IN EngineStep(w2, w.rtc.doc)

Engine_format(w, fn, name, fvars) ==
  EngineStep(Log(w, "engine", fn, [name |-> name, fvars |-> fvars]), w.rtc.doc)

Engine_getContent(w) ==
  Ok(Log(w, "engine", "getContent", NoArg), RetContent(NodeContent(w.rtc.doc)))

Engine_setContent(w, fragment) ==
  EngineStep(Log(w, "engine", "setContent", [node |-> fragment]), fragment)

Engine_insertContent(w, fragment) ==
  EngineStep(Log(w, "engine", "insertContent", [node |-> fragment]),
             ReplaceSelection(w.rtc.doc, fragment))

Engine_getSelectedContent(w) ==
  Ok(Log(w, "engine", "getSelectedContent", NoArg),
     RetContent(NodeContent(SelectionOf(w.rtc.doc))))

(***************************************************************************)
(* Adaptors.  An adaptor value names its variant and, for the              *)
(* Collaborative Adaptor, the engine it wraps.                             *)
(***************************************************************************)
NoAdaptor == [kind |-> "undefined", engine |-> 0]
makePlainAdaptor == [kind |-> "plain", engine |-> 0]
makeRtcAdaptor(rtcEditor) == [kind |-> "rtc", engine |-> rtcEditor.id]

\* --- makePlainAdaptor: every member forwards to the local subsystem ---
Plain_beforeChange(w) == Operations_beforeChange(w)
\* (mutant) the level is added and the cursor stays where it was
Plain_addUndoLevel_keepsCursor(w) ==
  LET r == Operations_addUndoLevel(w)
  IN [r EXCEPT !.w.index = w.index]

\* (mutant) a level is added without looking at the content of the last one
Plain_addUndoLevel_always(w) ==
  IF w.locks # 0 THEN Ok(w, RetNull)
  ELSE LET level == LevelOfEditor(w)
           kept == SubSeq(w.data, 1, Min(w.index + 1, Len(w.data)))
           grown == Append(kept, level)
           w1 == Log(w, "levels", "push",
                     [dropped |-> Len(w.data) - Len(kept)])
       IN Ok([w1 EXCEPT !.data = grown, !.index = Len(grown) - 1],
             RetLevel(level))

Plain_addUndoLevel(w) == Operations_addUndoLevel(w)
Plain_undo(w) == Operations_undo(w)
\* (mutant) redo forwards to the store's undo
Plain_redo_asUndo(w) == Operations_undo(w)

Plain_redo(w) == Operations_redo(w)
\* (mutant) the levels are emptied and the index cell is left alone
Plain_clear_keepsIndex(w) == Ok([w EXCEPT !.data = <<>>], RetUndefined)

Plain_clear(w) == Operations_clear(w)
Plain_reset(w) == Operations_reset(w)
Plain_hasUndo(w) == Operations_hasUndo(w)
Plain_hasRedo(w) == Operations_hasRedo(w)
\* (mutant) the callback runs outside the store's transaction
Plain_transact_unlocked(w, callback) ==
  LET r == RunCallback(w, callback)
  IN IF r.failed THEN Result(r.w, CallbackError, RetUndefined)
     ELSE Operations_addUndoLevel(r.w)

Plain_transact(w, callback) == Operations_transact(w, callback)
Plain_ignore(w, callback) == Operations_ignore(w, callback)
Plain_extra(w, callback1, callback2) == Operations_extra(w, callback1, callback2)
Plain_applyFormat(w, name, fvars, node) ==
  LocalFormat(w, "ApplyFormat.applyFormat", name, fvars, node)
Plain_removeFormat(w, name, fvars, node) ==
  LocalFormat(w, "RemoveFormat.remove", name, fvars, node)
Plain_toggleFormat(w, name, fvars, node) ==
  LocalFormat(w, "ToggleFormat.toggle", name, fvars, node)
Plain_getContent(w, args, format) == getContentInternal(w, args, format)
Plain_setContent(w, content, args) == setContentInternal(w, content, args)
Plain_insertContent(w, value, details) == insertHtmlAtCaret(w, value, details)
Plain_getSelectedContent(w, format, args) ==
  getSelectedContentInternal(w, format, args)

\* --- makeRtcAdaptor ---
EmptyVars == [type |-> "object", value |-> "{}"]

\* Type.isObject(vars) ? vars : {}
defaultVars(fvars) == IF fvars.type = "object" THEN fvars ELSE EmptyVars

\* (mutant) Fun.noop in the place of Fun.die
unsupported_noop(w) == Ok(w, RetUndefined)

\* Fun.die('Unimplemented feature for rtc'): a function that throws
unsupported(w) == Result(w, Unimplemented, RetUndefined)

\* Fun.noop
Rtc_beforeChange(w) == Ok(w, RetUndefined)

\* a call of createDummyUndoLevel(), whose result is returned
ReturnDummyUndoLevel(w) ==
  Ok(Log(w, "local", "createDummyUndoLevel", NoArg),
     RetLevel(createDummyUndoLevel))

Rtc_addUndoLevel(w) == unsupported(w)
\* (mutant) the dummy level is returned and the engine is not called
Rtc_undo_noEngine(w) == ReturnDummyUndoLevel(w)

Rtc_undo(w) == ReturnDummyUndoLevel(Engine_undo(w))
Rtc_redo(w) == ReturnDummyUndoLevel(Engine_redo(w))
Rtc_clear(w) == unsupported(w)
Rtc_reset(w) == unsupported(w)
Rtc_hasUndo(w) == Engine_hasUndo(w)
Rtc_hasRedo(w) == Engine_hasRedo(w)
\* (mutant) fn is also run by the adaptor itself, after the engine's transact
Rtc_transact_runsLocally(w, fn) ==
  LET w1 == Engine_transact(w, fn)
      w2 == RunCallback(Log(w1, "local", "fn", [fn |-> fn]), fn).w
  IN ReturnDummyUndoLevel(w2)

Rtc_transact(w, fn) == ReturnDummyUndoLevel(Engine_transact(w, fn))
Rtc_ignore(w, callback) == unsupported(w)
Rtc_extra(w, callback1, callback2) == unsupported(w)

Rtc_applyFormat(w, name, fvars, node) ==
  Ok(Engine_format(w, "applyFormat", name, defaultVars(fvars)), RetUndefined)
Rtc_removeFormat(w, name, fvars, node) ==
  Ok(Engine_format(w, "removeFormat", name, defaultVars(fvars)), RetUndefined)
Rtc_toggleFormat(w, name, fvars, node) ==
  Ok(Engine_format(w, "toggleFormat", name, defaultVars(fvars)), RetUndefined)

\* (mutant) the fallback installs the Plain Adaptor it builds
Rtc_getContent_installsFallback(w, args, format) ==
  IF isSupportedContentFormat(format)
  THEN LET r == Engine_getContent(w)
           fragment == FilterTree(r.ret.content.tree)
           w1 == Log(r.w, "local", "FilterNode.filter", NoArg)
           w2 == Log(w1, "local", "serialize", [inner |-> TRUE])
       IN Ok(w2, RetContent(StringContent(Serialize(fragment))))
  ELSE Plain_getContent(
         [Log(w, "local", "makePlainAdaptor", NoArg)
            EXCEPT !.inst = makePlainAdaptor],
         args, format)

Rtc_getContent(w, args, format) ==
  IF isSupportedContentFormat(format)
  THEN LET r == Engine_getContent(w)
           fragment == FilterTree(r.ret.content.tree)
           w1 == Log(r.w, "local", "FilterNode.filter", NoArg)
           w2 == Log(w1, "local", "serialize", [inner |-> TRUE])
       IN Ok(w2, RetContent(StringContent(Serialize(fragment))))
  ELSE Plain_getContent(Log(w, "local", "makePlainAdaptor", NoArg),
                        args, format)

Rtc_getSelectedContent(w, format, args) ==
  IF isSupportedContentFormat(format)
  THEN LET r == Engine_getSelectedContent(w)
           fragment == r.ret.content.tree
           w1 == Log(r.w, "local", "serialize", [inner |-> FALSE])
       IN Ok(w1, RetContent(StringContent(Serialize(fragment))))
  ELSE Plain_getSelectedContent(Log(w, "local", "makePlainAdaptor", NoArg),
                                format, args)

\* (mutant) the string is parsed with the options of insertContent
Rtc_setContent_insertOptions(w, content, args) ==
  LET parsed == ~isTreeNode(content)
      fragment == IF parsed THEN Parse(content.toks, InsertOnly)
                  ELSE content.tree
      w1 == IF parsed
            THEN Log(w, "local", "parser.parse",
                     [html |-> content.toks, options |-> InsertOnly])
            ELSE w
  IN Ok(Engine_setContent(w1, fragment), RetContent(content))

Rtc_setContent(w, content, args) ==
  LET parsed == ~isTreeNode(content)
      fragment == IF parsed THEN Parse(content.toks, RootInsert)
                  ELSE content.tree
      w1 == IF parsed
            THEN Log(w, "local", "parser.parse",
                     [html |-> content.toks, options |-> RootInsert])
            ELSE w
  IN Ok(Engine_setContent(w1, fragment), RetContent(content))

\* (mutant) the string is parsed with the options of setContent
Rtc_insertContent_rootOptions(w, value, details) ==
  LET parsed == ~isTreeNode(value)
      fragment == IF parsed THEN Parse(value.toks, RootInsert)
                  ELSE value.tree
      w1 == IF parsed
            THEN Log(w, "local", "parser.parse",
                     [html |-> value.toks, options |-> RootInsert])
            ELSE w
  IN Ok(Engine_insertContent(w1, fragment), RetUndefined)

Rtc_insertContent(w, value, details) ==
  LET parsed == ~isTreeNode(value)
      fragment == IF parsed THEN Parse(value.toks, InsertOnly)
                  ELSE value.tree
      w1 == IF parsed
            THEN Log(w, "local", "parser.parse",
                     [html |-> value.toks, options |-> InsertOnly])
            ELSE w
  IN Ok(Engine_insertContent(w1, fragment), RetUndefined)

(***************************************************************************)
(* The Gateway: isRtc, setup and the forwarding operations.  A forwarding  *)
(* operation reads editor.rtcInstance and calls the member of that name;   *)
(* with no adaptor installed the member access fails.                      *)
(***************************************************************************)
Missing(w) == Result(w, TypeError, RetUndefined)
Void(r) == [r EXCEPT !.ret = RetUndefined]

beforeChange(w) ==
  IF w.inst = NoAdaptor THEN Missing(w)
  ELSE Void(IF w.inst.kind = "plain" THEN Plain_beforeChange(w)
       ELSE Rtc_beforeChange(w))

addUndoLevel(w) ==
  IF w.inst = NoAdaptor THEN Missing(w)
  ELSE IF w.inst.kind = "plain" THEN Plain_addUndoLevel(w)
       ELSE Rtc_addUndoLevel(w)

undo(w) ==
  IF w.inst = NoAdaptor THEN Missing(w)
  ELSE IF w.inst.kind = "plain" THEN Plain_undo(w)
       ELSE Rtc_undo(w)

redo(w) ==
  IF w.inst = NoAdaptor THEN Missing(w)
  ELSE IF w.inst.kind = "plain" THEN Plain_redo(w)
       ELSE Rtc_redo(w)

clear(w) ==
  IF w.inst = NoAdaptor THEN Missing(w)
  ELSE Void(IF w.inst.kind = "plain" THEN Plain_clear(w)
       ELSE Rtc_clear(w))

reset(w) ==
  IF w.inst = NoAdaptor THEN Missing(w)
  ELSE Void(IF w.inst.kind = "plain" THEN Plain_reset(w)
       ELSE Rtc_reset(w))

\* (mutant) a missing adaptor is answered with false
hasUndo_guarded(w) ==
  IF w.inst = NoAdaptor THEN Ok(w, RetBool(FALSE))
  ELSE IF w.inst.kind = "plain" THEN Plain_hasUndo(w)
       ELSE Rtc_hasUndo(w)

hasUndo(w) ==
  IF w.inst = NoAdaptor THEN Missing(w)
  ELSE IF w.inst.kind = "plain" THEN Plain_hasUndo(w)
       ELSE Rtc_hasUndo(w)

hasRedo(w) ==
  IF w.inst = NoAdaptor THEN Missing(w)
  ELSE IF w.inst.kind = "plain" THEN Plain_hasRedo(w)
       ELSE Rtc_hasRedo(w)

transact(w, callback) ==
  IF w.inst = NoAdaptor THEN Missing(w)
  ELSE IF w.inst.kind = "plain" THEN Plain_transact(w, callback)
       ELSE Rtc_transact(w, callback)

ignore(w, callback) ==
  IF w.inst = NoAdaptor THEN Missing(w)
  ELSE Void(IF w.inst.kind = "plain" THEN Plain_ignore(w, callback)
       ELSE Rtc_ignore(w, callback))

extra(w, callback1, callback2) ==
  IF w.inst = NoAdaptor THEN Missing(w)
  ELSE Void(IF w.inst.kind = "plain" THEN Plain_extra(w, callback1, callback2)
       ELSE Rtc_extra(w, callback1, callback2))

applyFormat(w, name, fvars, node) ==
  IF w.inst = NoAdaptor THEN Missing(w)
  ELSE Void(IF w.inst.kind = "plain" THEN Plain_applyFormat(w, name, fvars, node)
       ELSE Rtc_applyFormat(w, name, fvars, node))

removeFormat(w, name, fvars, node) ==
  IF w.inst = NoAdaptor THEN Missing(w)
  ELSE Void(IF w.inst.kind = "plain" THEN Plain_removeFormat(w, name, fvars, node)
       ELSE Rtc_removeFormat(w, name, fvars, node))

toggleFormat(w, name, fvars, node) ==
  IF w.inst = NoAdaptor THEN Missing(w)
  ELSE Void(IF w.inst.kind = "plain" THEN Plain_toggleFormat(w, name, fvars, node)
       ELSE Rtc_toggleFormat(w, name, fvars, node))

getContent(w, args, format) ==
  IF w.inst = NoAdaptor THEN Missing(w)
  ELSE IF w.inst.kind = "plain" THEN Plain_getContent(w, args, format)
       ELSE Rtc_getContent(w, args, format)

setContent(w, content, args) ==
  IF w.inst = NoAdaptor THEN Missing(w)
  ELSE IF w.inst.kind = "plain" THEN Plain_setContent(w, content, args)
       ELSE Rtc_setContent(w, content, args)

insertContent(w, value, details) ==
  IF w.inst = NoAdaptor THEN Missing(w)
  ELSE IF w.inst.kind = "plain" THEN Plain_insertContent(w, value, details)
       ELSE Rtc_insertContent(w, value, details)

getSelectedContent(w, format, args) ==
  IF w.inst = NoAdaptor THEN Missing(w)
  ELSE IF w.inst.kind = "plain" THEN Plain_getSelectedContent(w, format, args)
       ELSE Rtc_getSelectedContent(w, format, args)

\* Obj.has(editor.plugins, 'rtc')
isRtc(registry) == "rtc" \in registry

\* (mutant) the Plain Adaptor is built and not stored
SetupCall_notInstalled(registry, inst) ==
  IF "rtc" \notin registry
  THEN [inst |-> inst, ret |-> "none", promise |-> "none"]
  ELSE [inst |-> inst, ret |-> "some", promise |-> "pending"]

\* (mutant) the Plain Adaptor serves until the engine is ready
SetupCall_plainWhileWaiting(registry, inst) ==
  IF "rtc" \notin registry
  THEN [inst |-> makePlainAdaptor, ret |-> "none", promise |-> "none"]
  ELSE [inst |-> makePlainAdaptor, ret |-> "some", promise |-> "pending"]

\* setup, up to its return: without the plugin the Plain Adaptor is
\* installed and none is returned; with it rtc.setup() is called and the
\* promise of its then is returned
SetupCall(registry, inst) ==
  IF "rtc" \notin registry
  THEN [inst |-> makePlainAdaptor, ret |-> "none", promise |-> "none"]
  ELSE [inst |-> inst, ret |-> "some", promise |-> "pending"]

\* (mutant) the callback yields isRemote and installs nothing
SetupThen_notInstalled(inst, rtcEditor) ==
  [inst |-> inst, state |-> "fulfilled", value |-> rtcEditor.isRemote]

\* the then-callback of setup, run with the engine rtc.setup() resolved to
SetupThen(inst, rtcEditor) ==
  [inst |-> makeRtcAdaptor(rtcEditor), state |-> "fulfilled",
   value |-> rtcEditor.isRemote]

\* (mutant) a rejection handler that falls back to the Plain Adaptor
SetupRejected_fallsBack(inst) ==
  [inst |-> makePlainAdaptor, state |-> "fulfilled", value |-> FALSE]

\* then has no rejection handler: the rejection passes to the returned promise
SetupRejected(inst) ==
  [inst |-> inst, state |-> "rejected", value |-> FALSE]

(***************************************************************************)
(* The inputs of the operations.                                           *)
(***************************************************************************)
InitialDoc == <<P("a")>>

Contents ==
  {StringContent(<<"a">>),
   StringContent(<<"<p>", "</p>">>),
   NodeContent(DocC)}

Formats == {"html", "text", "tree"}
ContentArgs == {[no_events |-> FALSE], [no_events |-> TRUE]}
SetContentArgs == {[no_events |-> FALSE]}
FormatNames == {"bold"}
VarsValues ==
  {[type |-> "undefined", value |-> ""],
   [type |-> "object", value |-> "{value: red}"]}
NodeArgs == {"range"}
ExtraCallbacks == {cb \in Callbacks : Len(cb) <= 1}

\* the engines the rtc plugin may resolve to
Engine(id) == [id |-> id, isRemote |-> (id = 1)]
Engines == {Engine(1), Engine(2)}

PluginSets == {{"lists"}, {"lists", "rtc"}}

(***************************************************************************)
(* The inline render mode.  A handler works on a record u of the state it  *)
(* can touch; u.calls lists the calls it made on the user interface, and   *)
(* u.failed tells that it ended with the TypeError of a member access on   *)
(* the unset floatContainer.                                               *)
(***************************************************************************)
ToolbarModes == {"wrap", "sliding", "floating"}

UiConfigs ==
  [useFixedToolbarContainer : BOOLEAN, isSticky : BOOLEAN,
   toolbarMode : ToolbarModes, isToolbarTop : BOOLEAN]

DefaultUiConfig ==
  [useFixedToolbarContainer |-> FALSE, isSticky |-> FALSE,
   toolbarMode |-> "wrap", isToolbarTop |-> TRUE]

Positions == 0..MaxPos

\* toolbarMode === ToolbarMode.floating
isSplitFloatingToolbar(cfg) == cfg.toolbarMode = "floating"

\* toolbarMode === ToolbarMode.sliding || isSplitFloatingToolbar
isSplitToolbar(cfg) ==
  cfg.toolbarMode = "sliding" \/ isSplitFloatingToolbar(cfg)

\* a call that does not read floatContainer
UiStep(u, call) ==
  IF u.failed THEN u ELSE [u EXCEPT !.calls = Append(@, call)]

\* a call that starts with floatContainer.element() or hands floatContainer
\* to Docking
UiRead(u, call) ==
  IF u.failed THEN u
  ELSE IF u.fc = "unset" THEN [u EXCEPT !.failed = TRUE]
  ELSE [u EXCEPT !.calls = Append(@, call)]

updateChromePosition(cfg, u) ==
  LET u1 == IF cfg.isToolbarTop
            THEN UiRead(u, "Height.get(floatContainer)")
            ELSE u
      u2 == UiStep(u1, "Css.setAll(outerContainer)")
  IN UiRead(u2, "Css.set(floatContainer, max-width)")

updateChromeUi(cfg, u, resetDocking) ==
  LET u0 == UiStep(u, IF resetDocking THEN "updateChromeUi(true)"
                      ELSE "updateChromeUi(false)")
      u1 == IF isSplitToolbar(cfg)
            THEN UiStep(u0, "OuterContainer.refreshToolbar")
            ELSE u0
      u2 == IF ~cfg.useFixedToolbarContainer
            THEN updateChromePosition(cfg, u1)
            ELSE u1
      u3 == IF cfg.isSticky
            THEN UiRead(u2, IF resetDocking THEN "Docking.reset(floatContainer)"
                            ELSE "Docking.refresh(floatContainer)")
            ELSE u2
  IN IF isSplitFloatingToolbar(cfg)
     THEN UiStep(u3, "SplitFloatingToolbar.reposition")
     ELSE u3

show(cfg, u) ==
  LET u1 == UiStep([u EXCEPT !.visible = TRUE], "show")
  IN updateChromeUi(cfg, u1, FALSE)

hide(u) == UiStep([u EXCEPT !.visible = FALSE], "hide")

\* Delay.requestAnimationFrame(callback)
requestAnimationFrame(u) ==
  IF u.failed THEN u ELSE [u EXCEPT !.frames = @ + 1]

\* (mutant) every handler is registered before render returns
OuterHandlers_all ==
  {"focus", "blur", "hide", "init", "activate", "deactivate", "SkinLoaded",
   "ResizeWindow", "NodeChange", "keydown"}

\* the handlers render registers before it returns (lines 169 to 176)
OuterHandlers == {"focus", "blur", "hide", "init"}

\* the handlers the first run of the inner render registers (lines 146 to 164)
InnerHandlers ==
  {"activate", "deactivate", "SkinLoaded", "ResizeWindow", "NodeChange",
   "keydown"}

UiEvents == OuterHandlers \cup InnerHandlers

\* the inner render: show when floatContainer is set; else set it, build the
\* chrome, show, register the handlers and fire NodeChange (nodeChanged)
render(cfg, u) ==
  IF u.fc # "unset" THEN show(cfg, u)
  ELSE LET u1 == UiStep([u EXCEPT !.fc = "header"], "render")
           u2 == show(cfg, u1)
           u3 == IF u2.failed THEN u2
                 ELSE [u2 EXCEPT !.handlers = @ \cup InnerHandlers]
       IN requestAnimationFrame(u3)

\* (mutant) the callback does not look at visible
AnimationFrameCallback_ignoresVisible(cfg, u, pos) ==
  IF pos # u.prevPos
  THEN LET u1 == updateChromeUi(cfg, u, TRUE)
       IN IF u1.failed THEN u1 ELSE [u1 EXCEPT !.prevPos = pos]
  ELSE u

\* the callback of requestAnimationFrame (lines 157 to 162)
AnimationFrameCallback(cfg, u, pos) ==
  IF u.visible /\ pos # u.prevPos
  THEN LET u1 == updateChromeUi(cfg, u, TRUE)
       IN IF u1.failed THEN u1 ELSE [u1 EXCEPT !.prevPos = pos]
  ELSE u

\* the handlers of an event, run when the editor fires it
Dispatch(cfg, u, event, hasFocus) ==
  IF event \notin u.handlers THEN u
  ELSE CASE event = "focus" -> render(cfg, u)
         [] event \in {"blur", "hide", "deactivate"} -> hide(u)
         [] event = "init" -> IF hasFocus THEN render(cfg, u) ELSE u
         [] event = "activate" -> show(cfg, u)
         [] event \in {"SkinLoaded", "ResizeWindow"} ->
              IF u.visible THEN updateChromeUi(cfg, u, TRUE) ELSE u
         [] OTHER -> requestAnimationFrame(u)

\* the state render leaves when it returns
InlineStart(cfg, pos) ==
  /\ uiConfig = cfg
  /\ floatContainer = "unset"
  /\ visible = FALSE
  /\ prevPos = pos
  /\ targetPos = pos
  /\ handlers = OuterHandlers
  /\ frames = 0
  /\ initFired = FALSE
  /\ uiLast = [event |-> "none", calls |-> <<>>, failed |-> FALSE]

(***************************************************************************)
(* The state machine.                                                      *)
(***************************************************************************)
W == [inst |-> rtcInstance, doc |-> editorDoc, data |-> data,
      index |-> index, locks |-> locks, bb |-> beforeBookmark,
      rtc |-> rtcState, calls |-> <<>>]

\* the model keeps at most MaxLevels undo levels
Fits(r) == Len(r.w.data) <= MaxLevels

\* the state after a Gateway call with result r
Commit(op, args, r) ==
  /\ Fits(r)
  /\ rtcInstance' = r.w.inst
  /\ editorDoc' = r.w.doc
  /\ data' = r.w.data
  /\ index' = r.w.index
  /\ locks' = r.w.locks
  /\ beforeBookmark' = r.w.bb
  /\ rtcState' = r.w.rtc
  /\ last' = [op |-> op, args |-> args, adaptor |-> rtcInstance,
              outcome |-> r.outcome, ret |-> r.ret, calls |-> r.w.calls]
  /\ UNCHANGED <<plugins, setupReturn, pluginPromise, setupPromise, observed>>
  /\ UNCHANGED inlineVars

Init ==
  /\ plugins \in PluginSets
  /\ rtcInstance = NoAdaptor
  /\ setupReturn = "uncalled"
  /\ pluginPromise = [state |-> "none", engine |-> 0]
  /\ setupPromise = [state |-> "none", value |-> FALSE]
  /\ observed = [state |-> "none", value |-> FALSE, inst |-> NoAdaptor]
  /\ editorDoc = InitialDoc
  /\ data = <<>>
  /\ index = 0
  /\ locks = 0
  /\ beforeBookmark = "null"
  /\ rtcState = [doc |-> <<>>, past |-> 0, future |-> 0]
  /\ last = [op |-> "none", args |-> NoArg, adaptor |-> NoAdaptor,
             outcome |-> "none", ret |-> RetUndefined, calls |-> <<>>]
  /\ InlineStart(DefaultUiConfig, 0)

\* setup(editor), called once for an editor, up to its return
Setup ==
  /\ setupReturn = "uncalled"
  /\ LET r == SetupCall(plugins, rtcInstance)
     IN /\ rtcInstance' = r.inst
        /\ setupReturn' = r.ret
        /\ pluginPromise' = [state |-> r.promise, engine |-> 0]
        /\ setupPromise' = [state |-> r.promise, value |-> FALSE]
  /\ UNCHANGED <<plugins, observed, editorDoc, data, index, locks,
                 beforeBookmark, rtcState, last>>
  /\ UNCHANGED inlineVars

\* the promise of rtc.setup() resolves with an engine
PluginResolve ==
  /\ pluginPromise.state = "pending"
  /\ \E e \in Engines :
       pluginPromise' = [state |-> "fulfilled", engine |-> e.id]
  /\ UNCHANGED <<plugins, rtcInstance, setupReturn, setupPromise, observed,
                 editorDoc, data, index, locks, beforeBookmark, rtcState, last>>
  /\ UNCHANGED inlineVars

\* the promise of rtc.setup() rejects
PluginReject ==
  /\ pluginPromise.state = "pending"
  /\ pluginPromise' = [state |-> "rejected", engine |-> 0]
  /\ UNCHANGED <<plugins, rtcInstance, setupReturn, setupPromise, observed,
                 editorDoc, data, index, locks, beforeBookmark, rtcState, last>>
  /\ UNCHANGED inlineVars

\* the job of the then-callback of setup
SetupThenJob ==
  /\ pluginPromise.state = "fulfilled"
  /\ setupPromise.state = "pending"
  /\ LET r == SetupThen(rtcInstance, Engine(pluginPromise.engine))
     IN /\ rtcInstance' = r.inst
        /\ setupPromise' = [state |-> r.state, value |-> r.value]
  /\ UNCHANGED <<plugins, setupReturn, pluginPromise, observed, editorDoc,
                 data, index, locks, beforeBookmark, rtcState, last>>
  /\ UNCHANGED inlineVars

\* the job of then for a rejected rtc.setup()
SetupRejectJob ==
  /\ pluginPromise.state = "rejected"
  /\ setupPromise.state = "pending"
  /\ LET r == SetupRejected(rtcInstance)
     IN /\ rtcInstance' = r.inst
        /\ setupPromise' = [state |-> r.state, value |-> r.value]
  /\ UNCHANGED <<plugins, setupReturn, pluginPromise, observed, editorDoc,
                 data, index, locks, beforeBookmark, rtcState, last>>
  /\ UNCHANGED inlineVars

\* the continuation of the caller of setup on the settled promise
CallerContinuation ==
  /\ setupPromise.state \in {"fulfilled", "rejected"}
  /\ observed.state = "none"
  /\ observed' = [state |-> setupPromise.state, value |-> setupPromise.value,
                  inst |-> rtcInstance]
  /\ UNCHANGED <<plugins, rtcInstance, setupReturn, pluginPromise,
                 setupPromise, editorDoc, data, index, locks, beforeBookmark,
                 rtcState, last>>
  /\ UNCHANGED inlineVars

\* the engine renders its document into the local editor body
EngineSync ==
  /\ rtcInstance.kind = "rtc"
  /\ editorDoc' = rtcState.doc
  /\ UNCHANGED <<plugins, rtcInstance, setupReturn, pluginPromise,
                 setupPromise, observed, data, index, locks, beforeBookmark,
                 rtcState, last>>
  /\ UNCHANGED inlineVars

BeforeChange ==
  Commit("beforeChange", NoArg, beforeChange(W))

AddUndoLevel ==
  Commit("addUndoLevel", NoArg, addUndoLevel(W))

Undo ==
  Commit("undo", NoArg, undo(W))

Redo ==
  Commit("redo", NoArg, redo(W))

Clear ==
  Commit("clear", NoArg, clear(W))

Reset ==
  Commit("reset", NoArg, reset(W))

HasUndo ==
  Commit("hasUndo", NoArg, hasUndo(W))

HasRedo ==
  Commit("hasRedo", NoArg, hasRedo(W))

Transact ==
  \E callback \in Callbacks :
    Commit("transact", NoArg, transact(W, callback))

Ignore ==
  \E callback \in Callbacks :
    Commit("ignore", NoArg, ignore(W, callback))

Extra ==
  \E callback1 \in ExtraCallbacks :
    \E callback2 \in ExtraCallbacks :
    Commit("extra", NoArg, extra(W, callback1, callback2))

ApplyFormat ==
  \E name \in FormatNames :
    \E fvars \in VarsValues :
    \E node \in NodeArgs :
    Commit("applyFormat", NoArg, applyFormat(W, name, fvars, node))

RemoveFormat ==
  \E name \in FormatNames :
    \E fvars \in VarsValues :
    \E node \in NodeArgs :
    Commit("removeFormat", NoArg, removeFormat(W, name, fvars, node))

ToggleFormat ==
  \E name \in FormatNames :
    \E fvars \in VarsValues :
    \E node \in NodeArgs :
    Commit("toggleFormat", NoArg, toggleFormat(W, name, fvars, node))

GetContent ==
  \E args \in ContentArgs :
    \E format \in Formats :
    Commit("getContent", [args |-> args, format |-> format], getContent(W, args, format))

SetContent ==
  \E content \in Contents :
    \E args \in SetContentArgs :
    Commit("setContent", [content |-> content, args |-> args], setContent(W, content, args))

InsertContent ==
  \E value \in Contents :
    \E details \in SetContentArgs :
    Commit("insertContent", [value |-> value, details |-> details], insertContent(W, value, details))

GetSelectedContent ==
  \E format \in Formats :
    \E args \in ContentArgs :
    Commit("getSelectedContent", [format |-> format, args |-> args], getSelectedContent(W, format, args))

Next ==
  \/ Setup
  \/ PluginResolve
  \/ PluginReject
  \/ SetupThenJob
  \/ SetupRejectJob
  \/ CallerContinuation
  \/ EngineSync
  \/ BeforeChange
  \/ AddUndoLevel
  \/ Undo
  \/ Redo
  \/ Clear
  \/ Reset
  \/ HasUndo
  \/ HasRedo
  \/ Transact
  \/ Ignore
  \/ Extra
  \/ ApplyFormat
  \/ RemoveFormat
  \/ ToggleFormat
  \/ GetContent
  \/ SetContent
  \/ InsertContent
  \/ GetSelectedContent

Spec == Init /\ [][Next]_vars

\* the job queue runs every job it holds
FairSpec == Spec /\ WF_vars(SetupThenJob) /\ WF_vars(SetupRejectJob)

(***************************************************************************)
(* The state machine of the inline render mode.                            *)
(***************************************************************************)
U == [fc |-> floatContainer, visible |-> visible, prevPos |-> prevPos,
      handlers |-> handlers, frames |-> frames, calls |-> <<>>,
      failed |-> FALSE]

\* the state after a handler that ended with u
UiCommit(event, u) ==
  /\ u.frames <= MaxFrames
  /\ floatContainer' = u.fc
  /\ visible' = u.visible
  /\ prevPos' = u.prevPos
  /\ handlers' = u.handlers
  /\ frames' = u.frames
  /\ uiLast' = [event |-> event, calls |-> u.calls, failed |-> u.failed]
  /\ UNCHANGED <<uiConfig, targetPos>>
  /\ UNCHANGED adaptorVars

Fire(event) ==
  /\ UiCommit(event, Dispatch(uiConfig, U, event, FALSE))
  /\ UNCHANGED initFired

InlineInit ==
  /\ plugins = {"lists"}
  /\ rtcInstance = NoAdaptor
  /\ setupReturn = "uncalled"
  /\ pluginPromise = [state |-> "none", engine |-> 0]
  /\ setupPromise = [state |-> "none", value |-> FALSE]
  /\ observed = [state |-> "none", value |-> FALSE, inst |-> NoAdaptor]
  /\ editorDoc = InitialDoc
  /\ data = <<>>
  /\ index = 0
  /\ locks = 0
  /\ beforeBookmark = "null"
  /\ rtcState = [doc |-> <<>>, past |-> 0, future |-> 0]
  /\ last = [op |-> "none", args |-> NoArg, adaptor |-> NoAdaptor,
             outcome |-> "none", ret |-> RetUndefined, calls |-> <<>>]
  /\ \E cfg \in UiConfigs : \E pos \in Positions : InlineStart(cfg, pos)

FocusEvent == Fire("focus")

BlurEvent == Fire("blur")

HideEvent == Fire("hide")

\* init is fired once; its handler asks editor.hasFocus()
InitEvent ==
  /\ ~initFired
  /\ initFired' = TRUE
  /\ \E hasFocus \in BOOLEAN :
       UiCommit("init", Dispatch(uiConfig, U, "init", hasFocus))

ActivateEvent == Fire("activate")

DeactivateEvent == Fire("deactivate")

SkinLoadedEvent == Fire("SkinLoaded")

ResizeWindowEvent == Fire("ResizeWindow")

NodeChangeEvent == Fire("NodeChange")

KeydownEvent == Fire("keydown")

\* the browser runs one requested animation-frame callback
AnimationFrame ==
  /\ frames > 0
  /\ UiCommit("frame",
              AnimationFrameCallback(uiConfig, [U EXCEPT !.frames = @ - 1],
                                     targetPos))
  /\ UNCHANGED initFired

\* the target element moves (the page scrolls, the content grows)
TargetMoves ==
  /\ \E pos \in Positions : pos # targetPos /\ targetPos' = pos
  /\ UNCHANGED <<uiConfig, floatContainer, visible, prevPos, handlers, frames,
                 initFired, uiLast>>
  /\ UNCHANGED adaptorVars

InlineNext ==
  \/ FocusEvent
  \/ BlurEvent
  \/ HideEvent
  \/ InitEvent
  \/ ActivateEvent
  \/ DeactivateEvent
  \/ SkinLoadedEvent
  \/ ResizeWindowEvent
  \/ NodeChangeEvent
  \/ KeydownEvent
  \/ AnimationFrame
  \/ TargetMoves

InlineSpec == InlineInit /\ [][InlineNext]_vars

(***************************************************************************)
(* Properties.                                                             *)
(***************************************************************************)
\* A step of a Gateway forwarding operation: a step that is neither one of
\* setup and its promise chain (each of which changes one of the variables
\* below) nor the engine's rendering.  last' is then the record of the call.
GatewayCall ==
  /\ UNCHANGED <<plugins, setupReturn, pluginPromise, setupPromise, observed>>
  /\ ~EngineSync

Called(ops) == GatewayCall /\ last'.op \in ops

UnsupportedOps == {"addUndoLevel", "clear", "reset", "ignore", "extra"}

\* C1: with the Collaborative Adaptor installed, every call of addUndoLevel,
\* clear, reset, ignore and extra fails with 'Unimplemented feature for rtc',
\* calls nothing on the engine (or anywhere else) and leaves the local undo
\* levels, index and locks, and the engine, as they were.
C1_UnsupportedUnderRtc ==
  [][(rtcInstance.kind = "rtc" /\ Called(UnsupportedOps))
     => /\ last'.outcome = Unimplemented
        /\ last'.calls = <<>>
        /\ UNCHANGED <<data, index, locks, beforeBookmark, rtcState,
                       editorDoc, rtcInstance>>]_vars

C1_Witness ==
  /\ last.adaptor.kind = "rtc"
  /\ last.op = "extra"
  /\ last.outcome = Unimplemented

\* C2: on an editor without the rtc plugin, setup has installed the Plain
\* Adaptor when it returns, returns none with no promise pending anywhere,
\* isRtc is false, and every Gateway call made after setup returned finds
\* the Plain Adaptor and does not fail for a missing adaptor.
C2_PlainSetupIsSynchronous ==
  [][/\ (~isRtc(plugins) /\ Setup)
        => /\ rtcInstance' = makePlainAdaptor
           /\ setupReturn' = "none"
           /\ pluginPromise'.state = "none"
           /\ setupPromise'.state = "none"
     /\ (~isRtc(plugins) /\ setupReturn # "uncalled" /\ GatewayCall)
        => /\ last'.adaptor = makePlainAdaptor
           /\ last'.outcome # TypeError]_vars

C2_Witness ==
  /\ ~isRtc(plugins)
  /\ setupReturn = "none"
  /\ last.op = "undo"
  /\ last.adaptor = makePlainAdaptor
  /\ last.outcome = "ok"

\* C3: when the promise of rtc.setup() is resolved with an engine, the
\* promise setup returned gets resolved, with that engine's isRemote, and
\* whenever it is resolved (and when the caller's continuation sees it
\* resolved) the Collaborative Adaptor of that engine is installed.
C3_ResolvedState ==
  /\ setupPromise.state = "fulfilled"
       => /\ pluginPromise.state = "fulfilled"
          /\ setupPromise.value = Engine(pluginPromise.engine).isRemote
          /\ rtcInstance = makeRtcAdaptor(Engine(pluginPromise.engine))
  /\ observed.state = "fulfilled"
       => /\ observed.value = Engine(pluginPromise.engine).isRemote
          /\ observed.inst = makeRtcAdaptor(Engine(pluginPromise.engine))

C3_SetupResolves ==
  /\ []C3_ResolvedState
  /\ (pluginPromise.state = "fulfilled") ~> (setupPromise.state = "fulfilled")

C3_Witness ==
  /\ observed.state = "fulfilled"
  /\ observed.value = FALSE
  /\ observed.inst.kind = "rtc"
  /\ pluginPromise.engine = 2

\* C4: once an adaptor is installed, editor.rtcInstance keeps that adaptor
\* (same variant, same engine) through every later step.
C4_AdaptorNeverChanges ==
  [][rtcInstance # NoAdaptor => rtcInstance' = rtcInstance]_vars

C4_Witness ==
  /\ rtcInstance.kind = "rtc"
  /\ last.adaptor = rtcInstance
  /\ last.op = "getContent"
  /\ last.args.format = "text"
  /\ last.outcome = "ok"

\* C5: with no adaptor installed (before setup, and from the call of setup on
\* an rtc editor until the then-callback has run) every forwarding operation
\* fails with a TypeError, calls neither the engine nor a local subsystem and
\* changes nothing.
C5_NoAdaptorFails ==
  [][(rtcInstance = NoAdaptor /\ GatewayCall)
     => /\ last'.outcome = TypeError
        /\ last'.ret = RetUndefined
        /\ last'.calls = <<>>
        /\ UNCHANGED <<rtcInstance, editorDoc, data, index, locks,
                       beforeBookmark, rtcState>>]_vars

C5_Witness ==
  /\ isRtc(plugins)
  /\ setupReturn = "some"
  /\ pluginPromise.state = "pending"
  /\ last.op = "hasUndo"
  /\ last.outcome = TypeError

\* C6: when the promise of rtc.setup() is rejected, the promise setup
\* returned gets rejected, no adaptor is installed then or later, and every
\* forwarding operation called from then on fails with a TypeError.
C6_RejectedState ==
  pluginPromise.state = "rejected"
    => /\ rtcInstance = NoAdaptor
       /\ setupPromise.state \in {"pending", "rejected"}
       /\ observed.state \in {"none", "rejected"}

C6_RejectedSetup ==
  /\ []C6_RejectedState
  /\ [][(pluginPromise.state = "rejected" /\ GatewayCall)
        => last'.outcome = TypeError /\ last'.calls = <<>>]_vars
  /\ (pluginPromise.state = "rejected") ~> (setupPromise.state = "rejected")

C6_Witness ==
  /\ pluginPromise.state = "rejected"
  /\ setupPromise.state = "rejected"
  /\ observed.state = "rejected"
  /\ observed.inst = NoAdaptor
  /\ last.op = "setContent"
  /\ last.outcome = TypeError

\* C7: under the Collaborative Adaptor undo calls the engine's undo once and
\* redo the engine's redo once, each returns the level of one call of
\* createDummyUndoLevel (Complete, no fragments, empty content, null
\* bookmarks) and leaves the local levels, index and locks alone; hasUndo and
\* hasRedo return what the engine's hasUndo and hasRedo return.
DummyLevelAsSpecified ==
  [type |-> "Complete", fragments |-> <<>>, content |-> <<>>,
   bookmark |-> "null", beforeBookmark |-> "null"]

C7_Forwarded(fn) ==
  /\ last'.outcome = "ok"
  /\ EngineCalls(last'.calls) = <<Call("engine", fn, NoArg)>>
  /\ UNCHANGED <<data, index, locks, beforeBookmark, editorDoc>>

C7_DummyReturned ==
  /\ last'.ret = RetLevel(DummyLevelAsSpecified)
  /\ LocalCalls(last'.calls) = <<Call("local", "createDummyUndoLevel", NoArg)>>

C7_RtcUndoRedo ==
  [][(rtcInstance.kind = "rtc" /\ GatewayCall)
     => /\ last'.op = "undo" => C7_Forwarded("undo") /\ C7_DummyReturned
        /\ last'.op = "redo" => C7_Forwarded("redo") /\ C7_DummyReturned
        /\ last'.op = "hasUndo"
             => C7_Forwarded("hasUndo") /\ last'.ret = Engine_hasUndo(W).ret
        /\ last'.op = "hasRedo"
             => C7_Forwarded("hasRedo") /\ last'.ret = Engine_hasRedo(W).ret
    ]_vars

C7_Witness ==
  /\ last.adaptor.kind = "rtc"
  /\ last.op = "undo"
  /\ last.outcome = "ok"
  /\ rtcState.future > 0

\* C8: under the Collaborative Adaptor getContent(args, 'text') returns what
\* the Plain Adaptor's getContent(args, 'text') returns on the same editor,
\* through one call of the local getContentInternal with these arguments and
\* with no call of the engine.
C8_TextFallback ==
  [][(rtcInstance.kind = "rtc" /\ Called({"getContent"})
        /\ last'.args.format = "text")
     => /\ last'.outcome = "ok"
        /\ last'.ret = Plain_getContent(W, last'.args.args, "text").ret
        /\ last'.ret = RetContent(StringContent(TextOfTree(editorDoc)))
        /\ EngineCalls(last'.calls) = <<>>
        /\ CallsOf(last'.calls, "local", "getContentInternal")
             = <<Call("local", "getContentInternal",
                      [args |-> last'.args.args, format |-> "text"])>>]_vars

C8_Witness ==
  /\ last.adaptor.kind = "rtc"
  /\ last.op = "getContent"
  /\ last.args.format = "text"
  /\ last.ret = RetContent(StringContent(<<"a">>))
  /\ rtcState.doc = DocC

\* C9: under the Collaborative Adaptor setContent(content, args) returns
\* content itself and calls the engine's setContent once: with the tree of
\* content when content is a tree, and with the result of parsing content
\* with isRootContent and insert set when it is a string.
C9_RtcSetContent ==
  [][(rtcInstance.kind = "rtc" /\ Called({"setContent"}))
     => LET content == last'.args.content
            fragment ==
              IF isTreeNode(content) THEN content.tree
              ELSE Parse(content.toks,
                         [isRootContent |-> TRUE, insert |-> TRUE])
        IN /\ last'.outcome = "ok"
           /\ last'.ret = RetContent(content)
           /\ EngineCalls(last'.calls)
                = <<Call("engine", "setContent", [node |-> fragment])>>
           /\ rtcState'.doc = fragment]_vars

C9_Witness ==
  /\ last.adaptor.kind = "rtc"
  /\ last.op = "setContent"
  /\ last.args.content = StringContent(<<"a">>)
  /\ last.ret = RetContent(StringContent(<<"a">>))
  /\ rtcState.doc = <<P("a")>>

\* C10: in plain mode a call of transact adds at most one undo level, however
\* many changes, add calls and nested transactions its callback makes, and
\* leaves locks at the value it had before, also when the callback fails.
LevelsPushed(calls) == Len(CallsOf(calls, "levels", "push"))

C10_PlainTransact ==
  [][(rtcInstance.kind = "plain" /\ Called({"transact"}))
     => /\ LevelsPushed(last'.calls) <= 1
        /\ LevelsPushed(last'.calls) = 0 => data' = data /\ index' = index
        /\ LevelsPushed(last'.calls) = 1
             => LET kept == Min(index + 1, Len(data))
                IN /\ Len(data') = kept + 1
                   /\ SubSeq(data', 1, kept) = SubSeq(data, 1, kept)
                   /\ index' = kept
        /\ locks' = locks
        /\ last'.outcome \in {"ok", CallbackError}]_vars

C10_Witness ==
  /\ last.adaptor.kind = "plain"
  /\ last.op = "transact"
  /\ last.outcome = "ok"
  /\ LevelsPushed(last.calls) = 1
  /\ Len(data) = 2
  /\ locks = 0

\* C11: in plain mode, with a level before the cursor and a document that
\* holds the content of the level at the cursor (no change made since that
\* level), undo followed at once by redo puts the cursor and the document
\* back as they were before the undo and leaves the levels as they were.
C11_Clean == Serialize(editorDoc) = data[index + 1].content

C11_UndoRedoRoundTrip ==
  (rtcInstance.kind = "plain" /\ index > 0 /\ C11_Clean)
    => LET u == undo(W)
           r == redo(u.w)
       IN /\ u.outcome = "ok" /\ r.outcome = "ok"
          /\ u.w.index = index - 1
          /\ u.w.doc # editorDoc
          /\ r.w.index = index
          /\ r.w.data = data
          /\ r.w.doc = editorDoc

C11_Witness ==
  /\ last.adaptor.kind = "plain"
  /\ last.op = "redo"
  /\ last.ret.kind = "level"
  /\ index > 0
  /\ C11_Clean
  /\ editorDoc = DocB

\* C11 as claimed: the document content is restored for every level sequence
\* with a level before the cursor.
C11_AsClaimed ==
  (rtcInstance.kind = "plain" /\ index > 0)
    => LET r == redo(undo(W).w)
       IN /\ r.w.index = index
          /\ r.w.data = data
          /\ r.w.doc = editorDoc

\* C12: in plain mode the cursor is a position of the level sequence
\* whenever the sequence is not empty, and 0 whenever it is empty.
C12_CursorInRange ==
  rtcInstance.kind = "plain"
    => IF data = <<>> THEN index = 0
       ELSE 0 <= index /\ index < Len(data)

C12_Witness ==
  /\ last.adaptor.kind = "plain"
  /\ last.op = "clear"
  /\ last.outcome = "ok"
  /\ data = <<>>
  /\ index = 0
  /\ editorDoc = DocB

\* C13: in plain mode, when addUndoLevel creates a level, the levels after
\* the old cursor are dropped, the new level (of the current document) is the
\* last one and the cursor is on it, so that hasRedo is false right after;
\* and hasUndo is true once there are two levels.
C13_AddUndoLevelAdvances ==
  [][(rtcInstance.kind = "plain" /\ Called({"addUndoLevel"})
        /\ last'.ret.kind = "level")
     => LET kept == Min(index + 1, Len(data))
        IN /\ data' = Append(SubSeq(data, 1, kept), last'.ret.level)
           /\ last'.ret.level.content = Serialize(editorDoc)
           /\ index' = Len(data') - 1
           /\ hasRedo(W)'.ret = RetBool(FALSE)
           /\ Len(data') >= 2 => hasUndo(W)'.ret = RetBool(TRUE)]_vars

C13_Witness ==
  /\ last.adaptor.kind = "plain"
  /\ last.op = "addUndoLevel"
  /\ last.calls = <<Call("levels", "push", [dropped |-> 1])>>
  /\ Len(data) = 2
  /\ index = 1

\* C14: in plain mode a call of addUndoLevel that follows a call of
\* addUndoLevel, the document being the same, creates no level: the levels
\* and the cursor stay as they are and the call returns null.
C14_AddUndoLevelIdempotent ==
  [][(rtcInstance.kind = "plain" /\ last.op = "addUndoLevel"
        /\ last.adaptor.kind = "plain" /\ Called({"addUndoLevel"}))
     => /\ last'.ret = RetNull
        /\ last'.calls = <<>>
        /\ data' = data
        /\ index' = index]_vars

C14_Witness ==
  /\ last.adaptor.kind = "plain"
  /\ last.op = "addUndoLevel"
  /\ last.ret = RetNull
  /\ Len(data) = 2
  /\ index = 1

\* C15: under the Collaborative Adaptor getContent and getSelectedContent
\* branch on the format alike, and each call takes exactly one of two paths:
\* for every format other than 'text' ('html' and 'tree' among them) the
\* engine is asked once and its fragment serialized, with no use of the Plain
\* Adaptor; for 'text' a new Plain Adaptor is built and called once, with no
\* call of the engine.
C15_LocalFn ==
  IF last'.op = "getContent" THEN "getContentInternal"
  ELSE "getSelectedContentInternal"

C15_ViaEngine ==
  /\ EngineCalls(last'.calls) = <<Call("engine", last'.op, NoArg)>>
  /\ Len(CallsOf(last'.calls, "local", "serialize")) = 1
  /\ last'.ret.kind = "content" /\ last'.ret.content.kind = "string"

C15_ViaPlain ==
  /\ Len(CallsOf(last'.calls, "local", "makePlainAdaptor")) = 1
  /\ Len(CallsOf(last'.calls, "local", C15_LocalFn)) = 1

C15_EngineTouched ==
  \/ EngineCalls(last'.calls) # <<>>
  \/ CallsOf(last'.calls, "local", "serialize") # <<>>

C15_PlainTouched ==
  \/ CallsOf(last'.calls, "local", "makePlainAdaptor") # <<>>
  \/ CallsOf(last'.calls, "local", C15_LocalFn) # <<>>

C15_ExactlyOnePath ==
  \/ C15_ViaEngine /\ ~C15_PlainTouched
  \/ C15_ViaPlain /\ ~C15_EngineTouched

C15_ContentBranch ==
  [][(rtcInstance.kind = "rtc" /\ Called({"getContent", "getSelectedContent"}))
     => /\ last'.outcome = "ok"
        /\ C15_ExactlyOnePath
        /\ C15_ViaEngine <=> last'.args.format # "text"
        /\ C15_ViaPlain <=> last'.args.format = "text"]_vars

C15_Witness ==
  /\ last.adaptor.kind = "rtc"
  /\ last.op = "getSelectedContent"
  /\ last.args.format = "html"
  /\ EngineCalls(last.calls) = <<Call("engine", "getSelectedContent", NoArg)>>
  /\ rtcState.doc = DocC
  /\ last.ret = RetContent(StringContent(<<"<p>", "c", "</p>">>))

\* C15 as claimed: the engine path is taken for the tree format only, and
\* 'text' and every other format take the Plain Adaptor fallback.
C15_AsClaimed ==
  [][(rtcInstance.kind = "rtc" /\ Called({"getContent", "getSelectedContent"}))
     => /\ last'.outcome = "ok"
        /\ C15_ExactlyOnePath
        /\ C15_ViaEngine <=> last'.args.format = "tree"
        /\ C15_ViaPlain <=> last'.args.format # "tree"]_vars

\* C16: under the Collaborative Adaptor insertContent(value, details) calls
\* the engine's insertContent once and returns nothing: with the tree of
\* value when value is a tree, and with the result of parsing value with the
\* insert flag alone (not the root-content flag setContent also sets) when it
\* is a string.
C16_Inserted(options) ==
  LET value == last'.args.value
      fragment == IF isTreeNode(value) THEN value.tree
                  ELSE Parse(value.toks, options)
  IN /\ last'.outcome = "ok"
     /\ last'.ret = RetUndefined
     /\ EngineCalls(last'.calls)
          = <<Call("engine", "insertContent", [node |-> fragment])>>
     /\ isTreeNode(value) => LocalCalls(last'.calls) = <<>>
     /\ ~isTreeNode(value)
          => LocalCalls(last'.calls)
               = <<Call("local", "parser.parse",
                        [html |-> value.toks, options |-> options])>>

C16_RtcInsertContent ==
  [][(rtcInstance.kind = "rtc" /\ Called({"insertContent"}))
     => C16_Inserted([isRootContent |-> FALSE, insert |-> TRUE])]_vars

C16_Witness ==
  /\ last.adaptor.kind = "rtc"
  /\ last.op = "insertContent"
  /\ last.args.value = StringContent(<<"a">>)
  /\ last.ret = RetUndefined
  /\ rtcState.doc = <<Text("a")>>

\* C16 as claimed: the string is parsed with the options of setContent, the
\* root-content and insert flags.
C16_AsClaimed ==
  [][(rtcInstance.kind = "rtc" /\ Called({"insertContent"}))
     => C16_Inserted([isRootContent |-> TRUE, insert |-> TRUE])]_vars

\* C17: under the Collaborative Adaptor transact hands fn to the engine's
\* transact once, where it is run once, and runs it nowhere else; it returns
\* the level of one call of createDummyUndoLevel and leaves locks, the local
\* levels and the index as they were.
C17_RtcTransact ==
  [][(rtcInstance.kind = "rtc" /\ Called({"transact"}))
     => /\ last'.outcome = "ok"
        /\ Len(last'.calls) = 3
        /\ LET fn == last'.calls[1].arg.fn
           IN last'.calls = <<Call("engine", "transact", [fn |-> fn]),
                              Call("callback", "run", [fn |-> fn]),
                              Call("local", "createDummyUndoLevel", NoArg)>>
        /\ last'.ret = RetLevel(DummyLevelAsSpecified)
        /\ UNCHANGED <<locks, data, index, beforeBookmark, editorDoc>>]_vars

C17_Witness ==
  /\ last.adaptor.kind = "rtc"
  /\ last.op = "transact"
  /\ last.outcome = "ok"
  /\ Len(last.calls) = 3
  /\ last.calls[1] = Call("engine", "transact", [fn |-> <<"mutB", "add">>])
  /\ rtcState.past > 0

\* C19: whenever an adaptor is installed it is the Collaborative Adaptor
\* exactly when isRtc(editor) holds.
C19_AdaptorMatchesIsRtc ==
  rtcInstance # NoAdaptor => (rtcInstance.kind = "rtc" <=> isRtc(plugins))

C19_Witness ==
  /\ isRtc(plugins)
  /\ rtcInstance.kind = "rtc"
  /\ last.adaptor = rtcInstance
  /\ last.op = "hasRedo"
  /\ last.outcome = "ok"

\* The calls of updateChromeUi on the chrome, and those among them that read
\* floatContainer.
FloatContainerReads ==
  {"Height.get(floatContainer)", "Css.set(floatContainer, max-width)",
   "Docking.reset(floatContainer)", "Docking.refresh(floatContainer)"}

ChromeCalls ==
  FloatContainerReads
    \cup {"OuterContainer.refreshToolbar", "Css.setAll(outerContainer)",
          "SplitFloatingToolbar.reposition"}

Made(calls, which) == SelectSeq(calls, LAMBDA c : c \in which)

C20_FloatContainerSetBeforeUse ==
  /\ ~uiLast.failed
  /\ Made(uiLast.calls,
          FloatContainerReads
            \cup {"show", "updateChromeUi(true)", "updateChromeUi(false)"})
       # <<>>
       => floatContainer = "header"
  /\ floatContainer = "unset"
       => /\ uiLast.calls = IF uiLast.event \in {"blur", "hide"}
                            THEN <<"hide">> ELSE <<>>
          /\ ~visible
          /\ frames = 0

C20_Witness ==
  /\ uiLast.event = "activate"
  /\ floatContainer = "header"
  /\ uiLast.calls = <<"show", "updateChromeUi(false)",
                      "Height.get(floatContainer)",
                      "Css.setAll(outerContainer)",
                      "Css.set(floatContainer, max-width)",
                      "Docking.refresh(floatContainer)">>

\* C21: a requested animation-frame callback decides when it runs.  Run with
\* the toolbar hidden, or with the target where prevPos says, it calls
\* nothing and leaves prevPos alone; run with the toolbar visible and the
\* target elsewhere, it calls updateChromeUi(true) once and sets prevPos to
\* the target position.  No other step changes prevPos.
C21_FrameRuns == frames' < frames

C21_Updates(calls) == Made(calls, {"updateChromeUi(true)", "updateChromeUi(false)"})

C21_RepositionDecidedInCallback ==
  [][/\ (C21_FrameRuns /\ ~(visible /\ targetPos # prevPos))
          => /\ uiLast' = [event |-> "frame", calls |-> <<>>, failed |-> FALSE]
             /\ prevPos' = prevPos
     /\ (C21_FrameRuns /\ visible /\ targetPos # prevPos)
          => /\ uiLast'.event = "frame"
             /\ ~uiLast'.failed
             /\ C21_Updates(uiLast'.calls) = <<"updateChromeUi(true)">>
             /\ uiLast'.calls[1] = "updateChromeUi(true)"
             /\ prevPos' = targetPos
     /\ prevPos' # prevPos
          => C21_FrameRuns /\ visible /\ targetPos # prevPos
     /\ C21_FrameRuns => frames' = frames - 1 /\ visible' = visible
    ]_vars

C21_Witness ==
  /\ uiLast = [event |-> "frame", calls |-> <<>>, failed |-> FALSE]
  /\ floatContainer = "header"
  /\ ~visible
  /\ targetPos # prevPos
  /\ frames = 0

=============================================================================
